---- MODULE Spec2Model ----
(***************************************************************************)
(* x402-tollbooth: the sliding-window rate limiter (ratelimit/store.ts,    *)
(* ratelimit/check.ts), the time-session store (session/store.ts), the     *)
(* pricing resolver (pricing/config.ts), the admission pipeline that       *)
(* composes them per request, and the identity extractor and the duration  *)
(* parsers on their own.                                                   *)
(*                                                                         *)
(* Strings the code computes with (keys, durations, payer addresses) are   *)
(* sequences of one-character strings, so that concatenation, lower-casing *)
(* and the duration regular expression are computed, not assumed.          *)
(* Times are epoch milliseconds, as Date.now() gives them.                 *)
(***************************************************************************)
EXTENDS Integers, Sequences, FiniteSets, TLC

VARIABLES
    now,        \* Date.now()
    windows,    \* MemoryRateLimitStore.windows : key -> timestamps, oldest first
    rl,         \* per caller: the check() call whose result it is awaiting
    hist,       \* history: per rate-limit key, every check() answered so far
    sessions,   \* MemoryTimeSessionStore.sessions : key -> expiry
    st,         \* history: the last get() answered by the session store
    lastSet,    \* history: per session key, the value of the last set()
    lastOp,     \* history: the last set() performed on the session store
    gw,         \* per caller: the request the gateway is handling for it
    verifyCalls,    \* calls received by the facilitator's /verify
    settleCalls,    \* calls received by the facilitator's /settle
    paid,       \* history: requests received, who paid, sessions paid for
    input,      \* the argument a pure function is applied to
    output,     \* the value (or the throw) the function gave for input
    unswept     \* reference: a session store given the same calls, never swept

vars == <<now, windows, rl, hist, sessions, st, lastSet, lastOp, gw,
          verifyCalls, settleCalls, paid, input, output, unswept>>

(***************************************************************************)
(* Bounds of the model.                                                    *)
(***************************************************************************)
MaxInstant == 3     \* the clock visits Instant(0) .. Instant(MaxInstant)
MaxChecks == 3      \* check() calls made on the rate limiter
MaxSets == 3        \* set() calls made on the session store
MaxRequests == 2    \* requests received by the gateway

Procs == {"p1", "p2"}

(***************************************************************************)
(* Optional values: <<>> is undefined, <<v>> is the value v.               *)
(***************************************************************************)
None == <<>>
Some(v) == <<v>>

Max(a, b) == IF a >= b THEN a ELSE b

(***************************************************************************)
(* Strings.                                                                *)
(***************************************************************************)
Digits == {"0", "1", "2", "3", "4", "5", "6", "7", "8", "9"}

DigitVal(c) ==
    CASE c = "0" -> 0 [] c = "1" -> 1 [] c = "2" -> 2 [] c = "3" -> 3
      [] c = "4" -> 4 [] c = "5" -> 5 [] c = "6" -> 6 [] c = "7" -> 7
      [] c = "8" -> 8 [] c = "9" -> 9

\* Number.parseInt(s, 10) of a string of decimal digits
RECURSIVE parseInt(_)
parseInt(s) ==
    IF Len(s) = 0 THEN 0
    ELSE 10 * parseInt(SubSeq(s, 1, Len(s) - 1)) + DigitVal(s[Len(s)])

\* s.match(/^(\d+)([smhd])$/) succeeds
MatchesDuration(s) ==
    /\ Len(s) >= 2
    /\ \A i \in 1..(Len(s) - 1) : s[i] \in Digits
    /\ s[Len(s)] \in {"s", "m", "h", "d"}

UnitMs(u) ==
    CASE u = "s" -> 1000
      [] u = "m" -> 60000
      [] u = "h" -> 3600000
      [] u = "d" -> 86400000

\* A parser's outcome: milliseconds, or the Error thrown.
Parsed(ms) == [ok |-> TRUE, ms |-> ms, error |-> None]
Thrown(msg, arg) == [ok |-> FALSE, ms |-> 0, error |-> Some(<<msg, arg>>)]

parseWindow(window) ==
    IF ~MatchesDuration(window)
    THEN Thrown("Invalid rate limit window", window)
    ELSE Parsed(parseInt(SubSeq(window, 1, Len(window) - 1))
                  * UnitMs(window[Len(window)]))

\* A parser that ignores the unit and reads every duration as seconds.
parseDuration_seconds(duration) ==
    IF ~MatchesDuration(duration)
    THEN Thrown("Invalid duration", duration)
    ELSE Parsed(parseInt(SubSeq(duration, 1, Len(duration) - 1)) * 1000)

parseDuration(duration) ==
    IF ~MatchesDuration(duration)
    THEN Thrown("Invalid duration", duration)
    ELSE Parsed(parseInt(SubSeq(duration, 1, Len(duration) - 1))
                  * UnitMs(duration[Len(duration)]))

LowerChar(c) ==
    CASE c = "A" -> "a" [] c = "B" -> "b" [] c = "C" -> "c"
      [] c = "D" -> "d" [] c = "E" -> "e" [] c = "F" -> "f"
      [] c = "X" -> "x"
      [] OTHER -> c

toLowerCase(s) == [i \in 1..Len(s) |-> LowerChar(s[i])]

(***************************************************************************)
(* Maps (JavaScript Map): functions whose domain is the set of keys held.  *)
(***************************************************************************)
EmptyMap == [k \in {} |-> 0]

MapSet(m, k, v) == [x \in (DOMAIN m) \cup {k} |-> IF x = k THEN v ELSE m[x]]

MapDelete(m, k) == [x \in (DOMAIN m) \ {k} |-> m[x]]

MapKeep(m, keep) == [x \in keep |-> m[x]]

(***************************************************************************)
(* MemoryRateLimitStore (ratelimit/store.ts).                              *)
(***************************************************************************)
StaleMs == 3600000

\* while (timestamps.length > 0 && timestamps[0] < cutoff) timestamps.shift()
RECURSIVE Evict(_, _)
Evict(timestamps, cutoff) ==
    IF Len(timestamps) > 0 /\ timestamps[1] < cutoff
    THEN Evict(Tail(timestamps), cutoff)
    ELSE timestamps

\* A check that forgets to record the request it allows.
MemoryRateLimitStore_check_norecord(w, key, limit, windowMs, t) ==
    LET cutoff == t - windowMs
        timestamps == Evict(IF key \in DOMAIN w THEN w[key] ELSE <<>>, cutoff)
    IN  IF Len(timestamps) >= limit
        THEN [windows |-> MapSet(w, key, timestamps),
              result |-> [allowed |-> FALSE, remaining |-> 0, limit |-> limit,
                          resetMs |-> Max(timestamps[1] + windowMs - t, 0)]]
        ELSE [windows |-> MapSet(w, key, timestamps),
              result |-> [allowed |-> TRUE,
                          remaining |-> limit - (Len(timestamps) + 1),
                          limit |-> limit, resetMs |-> windowMs]]

\* A check that records the request also when it denies it.
MemoryRateLimitStore_check_recorddenied(w, key, limit, windowMs, t) ==
    LET cutoff == t - windowMs
        timestamps == Evict(IF key \in DOMAIN w THEN w[key] ELSE <<>>, cutoff)
    IN  IF Len(timestamps) >= limit
        THEN [windows |-> MapSet(w, key, Append(timestamps, t)),
              result |-> [allowed |-> FALSE, remaining |-> 0, limit |-> limit,
                          resetMs |-> Max(timestamps[1] + windowMs - t, 0)]]
        ELSE [windows |-> MapSet(w, key, Append(timestamps, t)),
              result |-> [allowed |-> TRUE,
                          remaining |-> limit - (Len(timestamps) + 1),
                          limit |-> limit, resetMs |-> windowMs]]

\* check(key, limit, windowMs) at Date.now() = t on the map w: the map it
\* leaves and the RateLimitResult it resolves to.  The body has no await, so
\* it runs to completion in the caller's turn of the event loop.
MemoryRateLimitStore_check(w, key, limit, windowMs, t) ==
    LET cutoff == t - windowMs
        timestamps == Evict(IF key \in DOMAIN w THEN w[key] ELSE <<>>, cutoff)
    IN  IF Len(timestamps) >= limit
        THEN [windows |-> MapSet(w, key, timestamps),
              result |-> [allowed |-> FALSE, remaining |-> 0, limit |-> limit,
                          resetMs |-> Max(timestamps[1] + windowMs - t, 0)]]
        ELSE [windows |-> MapSet(w, key, Append(timestamps, t)),
              result |-> [allowed |-> TRUE,
                          remaining |-> limit - (Len(timestamps) + 1),
                          limit |-> limit, resetMs |-> windowMs]]

\* sweep(): delete the keys with no timestamps or whose newest is over 1h old
MemoryRateLimitStore_sweep(w, t) ==
    MapKeep(w, {k \in DOMAIN w :
                  ~(Len(w[k]) = 0 \/ w[k][Len(w[k])] < t - StaleMs)})

(***************************************************************************)
(* Configuration: the routes of the gateway.                               *)
(***************************************************************************)
Colon == <<":">>

RouteT == <<"t">>       \* time-model route, rate limited
RouteQ == <<"q">>       \* request-model route (legacy price), default limit
RouteU == <<"u">>       \* time-model route, no rate limit

Hour1 == <<"1", "h">>
Hour2 == <<"2", "h">>

Config ==
    [defaults |-> [rateLimit |-> None],
     routes |->
        [r \in {RouteT, RouteQ, RouteU} |->
            CASE r = RouteT ->
                    [pricing |-> Some([model |-> Some("time"),
                                       duration |-> Some(Hour1),
                                       price |-> Some("$0.10"),
                                       match |-> None, fallback |-> None]),
                     price |-> Some("$0.01"), match |-> None,
                     fallback |-> None,
                     rateLimit |-> Some([requests |-> 1, window |-> Hour1])]
              [] r = RouteQ ->
                    [pricing |-> None,
                     price |-> Some("$0.01"), match |-> None,
                     fallback |-> Some("$0.02"),
                     rateLimit |-> Some([requests |-> 2, window |-> Hour2])]
              [] r = RouteU ->
                    [pricing |-> Some([model |-> Some("time"),
                                       duration |-> Some(Hour1),
                                       price |-> None,
                                       match |-> None, fallback |-> None]),
                     price |-> Some("$0.10"), match |-> None,
                     fallback |-> None,
                     rateLimit |-> None]]]

Routes == DOMAIN Config.routes

\* resolveRateLimit: routeRateLimit ?? config.defaults.rateLimit
resolveRateLimit(routeRateLimit, config) ==
    IF routeRateLimit # None THEN routeRateLimit ELSE config.defaults.rateLimit

\* A key that leaves the route out: `${identity}`
RateLimitKey_noroute(routeKey, identity) == identity

\* the key checkRateLimit builds: `${routeKey}:${identity}`
RateLimitKey(routeKey, identity) == routeKey \o Colon \o identity

\* checkRateLimit(store, identity, routeKey, rateLimit) at time t
checkRateLimit(w, identity, routeKey, rateLimit, t) ==
    MemoryRateLimitStore_check(w, RateLimitKey(routeKey, identity),
                               rateLimit.requests,
                               parseWindow(rateLimit.window).ms, t)

\* a ?? b
Coalesce(a, b) == IF a # None THEN a ELSE b

\* getEffectiveRoutePricing(route)
getEffectiveRoutePricing(route) ==
    LET pricing == route.pricing
        nested(f) == IF pricing # None THEN pricing[1][f] ELSE None
    IN  [model |-> Coalesce(nested("model"), Some("request"))[1],
         duration |-> nested("duration"),
         price |-> Coalesce(nested("price"), route.price),
         match |-> Coalesce(nested("match"), route.match),
         fallback |-> Coalesce(nested("fallback"), route.fallback)]

(***************************************************************************)
(* Requests and the payment-signature header (x402/payer.ts,               *)
(* ratelimit/check.ts).  A JSON value is the triple of its JavaScript     *)
(* type, its characters (a string) and its fields (an object); a header    *)
(* is the text sent: the pair of whether base64/JSON decoding succeeds on  *)
(* it, and the value it decodes to.                                        *)
(***************************************************************************)
JStr(s) == <<"string", s, EmptyMap>>
JObj(f) == <<"object", <<>>, f>>
JUndefined == <<"undefined", <<>>, EmptyMap>>

JType(j) == j[1]
JChars(j) == j[2]
JFields(j) == j[3]

Header(decodes, json) == <<decodes, json>>
Decodes(header) == header[1]
JsonOf(header) == header[2]

\* the walk of getNestedString: current = current[key] for each key
RECURSIVE Walk(_, _)
Walk(current, keys) ==
    IF keys = <<>> THEN current
    ELSE IF JType(current) # "object" THEN JUndefined
    ELSE IF Head(keys) \notin DOMAIN JFields(current) THEN JUndefined
    ELSE Walk(JFields(current)[Head(keys)], Tail(keys))

\* getNestedString(obj, ...keys): a non-empty string found there, or undefined
getNestedString(obj, keys) ==
    LET current == Walk(obj, keys)
    IN  IF JType(current) = "string" /\ Len(JChars(current)) > 0
        THEN Some(JChars(current)) ELSE None

\* decodePaymentSignature(header): the decoded payload, or a throw
decodePaymentSignature(header) ==
    IF Decodes(header) THEN [ok |-> TRUE, payload |-> JsonOf(header)]
    ELSE [ok |-> FALSE, payload |-> JUndefined]

\* A search of the known shapes in the reverse order: payer first.
PayerOfPayload_payerfirst(payload) ==
    Coalesce(getNestedString(payload, <<"payer">>),
             Coalesce(getNestedString(payload, <<"from">>),
                      getNestedString(payload,
                                      <<"payload", "authorization", "from">>)))

\* the payer the three known shapes give, first found wins
PayerOfPayload(payload) ==
    Coalesce(getNestedString(payload, <<"payload", "authorization", "from">>),
             Coalesce(getNestedString(payload, <<"from">>),
                      getNestedString(payload, <<"payer">>)))

\* extractPayerFromPaymentHeader(request): lower-cased payer or undefined
extractPayerFromPaymentHeader(request) ==
    IF request.paymentSignature = None THEN None
    ELSE LET d == decodePaymentSignature(request.paymentSignature[1])
         IN  IF ~d.ok THEN None
             ELSE LET payer == PayerOfPayload(d.payload)
                  IN  IF payer # None THEN Some(toLowerCase(payer[1]))
                      ELSE None

\* s.split(",")[0]
RECURSIVE FirstToken(_)
FirstToken(s) ==
    IF s = <<>> \/ Head(s) = "," THEN <<>>
    ELSE <<Head(s)>> \o FirstToken(Tail(s))

\* s.trim()
RECURSIVE TrimStart(_)
TrimStart(s) ==
    IF s # <<>> /\ Head(s) = " " THEN TrimStart(Tail(s)) ELSE s

RECURSIVE TrimEnd(_)
TrimEnd(s) ==
    IF s # <<>> /\ s[Len(s)] = " " THEN TrimEnd(SubSeq(s, 1, Len(s) - 1))
    ELSE s

Trim(s) == TrimEnd(TrimStart(s))

PayerPrefix == <<"p", "a", "y", "e", "r", ":">>
IpPrefix == <<"i", "p", ":">>
IpUnknown == <<"i", "p", ":", "u", "n", "k", "n", "o", "w", "n">>

\* the IP branch of extractIdentity
IpIdentity(request) ==
    IF request.forwardedFor # None /\ request.forwardedFor[1] # <<>>
    THEN LET ip == Trim(FirstToken(request.forwardedFor[1]))
         IN  IF ip # <<>> THEN IpPrefix \o ip ELSE IpUnknown
    ELSE IpUnknown

\* extractIdentity(request)
extractIdentity(request) ==
    IF request.paymentSignature # None
    THEN LET d == decodePaymentSignature(request.paymentSignature[1])
             payer == IF d.ok THEN PayerOfPayload(d.payload) ELSE None
         IN  IF payer # None THEN PayerPrefix \o toLowerCase(payer[1])
             ELSE IpIdentity(request)
    ELSE IpIdentity(request)

(***************************************************************************)
(* The clock.  Date.now() never decreases.  It visits the whole hours and  *)
(* the millisecond after each (0, 1, 3600000, 3600001, ...), so that the   *)
(* window and expiry boundaries and the instants just past them are all    *)
(* reached; a step may skip instants.                                      *)
(***************************************************************************)
HourMs == 3600000

Instant(i) == (i \div 2) * HourMs + (i % 2)

Tick ==
    /\ \E i \in 1..MaxInstant : Instant(i) > now /\ now' = Instant(i)
    /\ UNCHANGED <<windows, rl, hist, sessions, st, lastSet, lastOp, gw,
                   verifyCalls, settleCalls, paid, input, output, unswept>>

(***************************************************************************)
(* The rate limiter on its own: callers call checkRateLimit for a route    *)
(* and hold the result until their continuation runs; the sweep timer      *)
(* fires at any time.                                                      *)
(***************************************************************************)
LimitedRoutes == {r \in Routes :
                    resolveRateLimit(Config.routes[r].rateLimit, Config) # None}

RateLimitOf(r) == resolveRateLimit(Config.routes[r].rateLimit, Config)[1]

RLKeys == {RateLimitKey(r, IpUnknown) : r \in LimitedRoutes}

\* the route a rate-limit key of RLKeys was built for
RouteOfKey(k) == CHOOSE r \in LimitedRoutes : RateLimitKey(r, IpUnknown) = k

LimitOf(k) == RateLimitOf(RouteOfKey(k)).requests

WindowMsOf(k) == parseWindow(RateLimitOf(RouteOfKey(k)).window).ms

NoResult == [allowed |-> FALSE, remaining |-> 0, limit |-> 0, resetMs |-> 0]

RlIdle == [pc |-> "idle", key |-> <<>>, at |-> 0, seq |-> 0,
           result |-> NoResult]

NoGet == [n |-> 0, key |-> <<>>, at |-> 0, res |-> None]

NoOp == [n |-> 0, key |-> <<>>, arg |-> 0, prev |-> None]

GwVarsUnchanged ==
    UNCHANGED <<gw, verifyCalls, settleCalls, paid, input, output>>

StoreVarsUnchanged == UNCHANGED <<sessions, st, lastSet, lastOp, unswept>>

RECURSIVE SumLen(_, _)
SumLen(f, ks) ==
    IF ks = {} THEN 0
    ELSE LET k == CHOOSE x \in ks : TRUE
         IN  Len(f[k]) + SumLen(f, ks \ {k})

ChecksMade == SumLen(hist, DOMAIN hist)

\* p calls checkRateLimit(store, "ip:unknown", r, rateLimit)
RLCall(p, r) ==
    LET key == RateLimitKey(r, IpUnknown)
        out == checkRateLimit(windows, IpUnknown, r, RateLimitOf(r), now)
    IN  /\ rl[p].pc = "idle"
        /\ ChecksMade < MaxChecks
        /\ windows' = out.windows
        /\ hist' = [hist EXCEPT ![key] =
                        Append(@, [at |-> now, result |-> out.result])]
        /\ rl' = [rl EXCEPT ![p] =
                        [pc |-> "awaiting", key |-> key, at |-> now,
                         seq |-> Len(hist[key]) + 1, result |-> out.result]]
        /\ UNCHANGED now
        /\ StoreVarsUnchanged
        /\ GwVarsUnchanged

\* p's continuation runs with the result
RLReturn(p) ==
    /\ rl[p].pc = "awaiting"
    /\ rl' = [rl EXCEPT ![p] = RlIdle]
    /\ UNCHANGED <<now, windows, hist>>
    /\ StoreVarsUnchanged
    /\ GwVarsUnchanged

\* the setInterval callback of MemoryRateLimitStore
RLSweep ==
    /\ windows' = MemoryRateLimitStore_sweep(windows, now)
    /\ UNCHANGED <<now, rl, hist>>
    /\ StoreVarsUnchanged
    /\ GwVarsUnchanged

(***************************************************************************)
(* MemoryTimeSessionStore (session/store.ts).                              *)
(***************************************************************************)
\* A get that returns whatever is stored, expired or not.
MemoryTimeSessionStore_get_noexpiry(s, key, t) ==
    IF key \notin DOMAIN s
    THEN [sessions |-> s, result |-> None]
    ELSE [sessions |-> s, result |-> Some(s[key])]

\* get(key) at Date.now() = t on the map s: the map it leaves and the value
\* it resolves to.  No await in the body: one turn of the event loop.
MemoryTimeSessionStore_get(s, key, t) ==
    IF key \notin DOMAIN s
    THEN [sessions |-> s, result |-> None]
    ELSE IF s[key] <= t
         THEN [sessions |-> MapDelete(s, key), result |-> None]
         ELSE [sessions |-> s, result |-> Some(s[key])]

\* A set that only ever extends a session.
MemoryTimeSessionStore_set_extend(s, key, expiresAt) ==
    IF key \in DOMAIN s /\ s[key] > expiresAt THEN s
    ELSE MapSet(s, key, expiresAt)

\* set(key, expiresAt)
MemoryTimeSessionStore_set(s, key, expiresAt) == MapSet(s, key, expiresAt)

\* A sweep that also deletes the entries about to expire.
MemoryTimeSessionStore_sweep_eager(s, t) ==
    MapKeep(s, {k \in DOMAIN s : ~(s[k] <= t + 1)})

\* sweep(): delete every entry with expiry <= now
MemoryTimeSessionStore_sweep(s, t) ==
    MapKeep(s, {k \in DOMAIN s : ~(s[k] <= t)})

\* `${routeKey}:${payer.toLowerCase()}`, without the lower-casing
buildSessionKey_caseful(routeKey, payer) == routeKey \o Colon \o payer

\* buildSessionKey(routeKey, payer)
buildSessionKey(routeKey, payer) == routeKey \o Colon \o toLowerCase(payer)

(***************************************************************************)
(* The session store on its own: get and set are called directly (as the   *)
(* store's tests do), in any order and at any time, by any number of       *)
(* callers; each call is one turn of the event loop.  The sweep timer      *)
(* fires at any time.                                                      *)
(***************************************************************************)
PayerA == <<"0", "x", "A">>     \* one address, as its owner writes it
PayerALower == <<"0", "x", "a">>
PayerB == <<"0", "x", "b">>

Payers == {PayerA, PayerALower, PayerB}

TimeRoutes == {RouteT, RouteU}

SessionKeys == {buildSessionKey(r, a) : r \in TimeRoutes, a \in Payers}

\* the keys and the expiries the store is exercised with
StoreKeys == {buildSessionKey(RouteT, a) : a \in {PayerA, PayerB}}

Expiries(t) == {t - 1, t + 1, t + HourMs}

StGet(k) ==
    LET out == MemoryTimeSessionStore_get(sessions, k, now)
    IN  /\ sessions' = out.sessions
        /\ st' = [n |-> 1 - st.n, key |-> k, at |-> now, res |-> out.result]
        /\ unswept' = MemoryTimeSessionStore_get(unswept.sessions, k, now)
        /\ UNCHANGED <<now, lastSet, lastOp, windows, rl, hist>>
        /\ GwVarsUnchanged

\* set resolves to nothing: the caller holds no result of it
StSet(k, e) ==
    /\ lastOp.n < MaxSets
    /\ sessions' = MemoryTimeSessionStore_set(sessions, k, e)
    /\ lastSet' = [lastSet EXCEPT ![k] = Some(e)]
    /\ lastOp' = [n |-> lastOp.n + 1, key |-> k, arg |-> e,
                  prev |-> IF k \in DOMAIN sessions THEN Some(sessions[k])
                           ELSE None]
    /\ unswept' = [unswept EXCEPT !.sessions =
                        MemoryTimeSessionStore_set(@, k, e)]
    /\ UNCHANGED <<now, st, windows, rl, hist>>
    /\ GwVarsUnchanged

\* the setInterval callback of MemoryTimeSessionStore
StSweep ==
    /\ sessions' = MemoryTimeSessionStore_sweep(sessions, now)
    /\ UNCHANGED <<now, st, lastSet, lastOp, windows, rl, hist, unswept>>
    /\ GwVarsUnchanged

(***************************************************************************)
(* The admission pipeline (gateway.ts), per request: rate limit, session   *)
(* lookup, payment verification and settlement, proxying.  The handling of *)
(* a request is suspended exactly at its I/O calls: the facilitator's      *)
(* verify, its settle, and the upstream; everything between two of them is *)
(* one step.  The facilitator and the upstream answer as they please.      *)
(***************************************************************************)
Callers == {"alice", "mallory"}

LowerPayers == {toLowerCase(a) : a \in Payers}

\* the header makePaymentSignature(payer) builds
Signed(payer) ==
    Header(TRUE,
           JObj([payload |->
                JObj([authorization |-> JObj([from |-> JStr(payer)])])]))

\* a header that is not base64 JSON
Garbage == Header(FALSE, JUndefined)

ForwardedM == <<"9", " ", ",", "8">>

Request(r, h, f) == [route |-> r, paymentSignature |-> h, forwardedFor |-> f]

\* the requests each caller sends: alice pays as PayerA, or sends no header;
\* mallory never pays: she sends garbage, or a header naming alice's address
RequestsOf(c) ==
    IF c = "alice"
    THEN {Request(r, Some(Signed(PayerA)), None) : r \in Routes}
            \cup {Request(RouteU, None, None)}
    ELSE {Request(r, Some(Signed(PayerALower)), Some(ForwardedM)) :
                r \in TimeRoutes}
            \cup {Request(RouteT, Some(Garbage), Some(ForwardedM))}

NoRequest == [route |-> <<>>, paymentSignature |-> None, forwardedFor |-> None]

GwIdle == [pc |-> "idle", req |-> NoRequest, status |-> 0, via |-> "none",
           paymentResponse |-> FALSE, at |-> 0, snap |-> None, due |-> None,
           limited |-> FALSE, verify |-> "none", settle |-> "none",
           calls |-> 0]

Unlimited == [allowed |-> TRUE, remaining |-> 0, limit |-> 0, resetMs |-> 0]

\* c, whose previous request (if any) has been answered, sends req: steps
\* 1-5 of the pipeline up to the first I/O call.  gw[c] keeps the answer to
\* c's last request until c sends the next.
GwArrive(c, req) ==
    LET route == Config.routes[req.route]
        pricing == getEffectiveRoutePricing(route)
        rateLimit == resolveRateLimit(route.rateLimit, Config)
        rlOut == IF rateLimit # None
                 THEN checkRateLimit(windows, extractIdentity(req), req.route,
                                     rateLimit[1], now)
                 ELSE [windows |-> windows, result |-> Unlimited]
        payer == extractPayerFromPaymentHeader(req)
        key == buildSessionKey(req.route, payer[1])
        lookup == rlOut.result.allowed /\ pricing.model = "time" /\ payer # None
        getOut == IF lookup
                  THEN MemoryTimeSessionStore_get(sessions, key, now)
                  ELSE [sessions |-> sessions, result |-> None]
        decoded == /\ req.paymentSignature # None
                   /\ decodePaymentSignature(req.paymentSignature[1]).ok
        arrived == [GwIdle EXCEPT
                      !.req = req, !.at = now,
                      !.limited = ~rlOut.result.allowed,
                      !.snap = IF payer # None /\ key \in DOMAIN sessions
                               THEN Some(sessions[key]) ELSE None,
                      !.due = IF payer # None
                              THEN paid.until[<<req.route, payer[1]>>]
                              ELSE None]
    IN  /\ gw[c].pc \in {"idle", "done"}
        /\ paid.requests < MaxRequests
        /\ paid' = [paid EXCEPT !.requests = @ + 1]
        /\ windows' = rlOut.windows
        /\ sessions' = getOut.sessions
        /\ IF ~rlOut.result.allowed
           THEN /\ gw' = [gw EXCEPT ![c] =
                            [arrived EXCEPT !.pc = "done", !.status = 429]]
                /\ UNCHANGED verifyCalls
           ELSE IF getOut.result # None
           THEN /\ gw' = [gw EXCEPT ![c] =
                            [arrived EXCEPT !.pc = "proxying",
                                            !.via = "session"]]
                /\ UNCHANGED verifyCalls
           ELSE IF ~decoded
           THEN /\ gw' = [gw EXCEPT ![c] =
                            [arrived EXCEPT !.pc = "done", !.status = 402]]
                /\ UNCHANGED verifyCalls
           ELSE /\ gw' = [gw EXCEPT ![c] =
                            [arrived EXCEPT !.pc = "verifying", !.calls = 1]]
                /\ verifyCalls' = verifyCalls + 1
        /\ UNCHANGED <<now, rl, hist, st, lastSet, lastOp, settleCalls,
                       input, output, unswept>>

\* A verify continuation that calls settle whatever the facilitator answered.
GwVerifyReturn_settleanyway(c, answer) ==
    /\ gw[c].pc = "verifying"
    /\ gw' = [gw EXCEPT ![c].pc = "settling", ![c].verify = answer,
                        ![c].calls = @ + 1]
    /\ settleCalls' = settleCalls + 1
    /\ UNCHANGED <<now, windows, rl, hist, sessions, st, lastSet, lastOp,
                   verifyCalls, paid, input, output, unswept>>

\* the facilitator's answer to /verify: "valid" is isValid = true; "invalid"
\* is every other outcome (isValid = false, a non-2xx or malformed answer,
\* no answer), all of which the pipeline treats as a failed verification
GwVerifyReturn(c, answer) ==
    /\ gw[c].pc = "verifying"
    /\ IF answer = "valid"
       THEN /\ gw' = [gw EXCEPT ![c].pc = "settling", ![c].verify = answer,
                                ![c].calls = @ + 1]
            /\ settleCalls' = settleCalls + 1
       ELSE /\ gw' = [gw EXCEPT ![c].pc = "done", ![c].verify = answer,
                                ![c].status = 402]
            /\ UNCHANGED settleCalls
    /\ UNCHANGED <<now, windows, rl, hist, sessions, st, lastSet, lastOp,
                   verifyCalls, paid, input, output, unswept>>

\* A settle continuation that treats every answer as a success.
GwSettleReturn_ignorefailure(c, answer) ==
    LET req == gw[c].req
        pricing == getEffectiveRoutePricing(Config.routes[req.route])
        payer == PayerOfPayload(
                    decodePaymentSignature(req.paymentSignature[1]).payload)
        expiry == now + parseDuration(pricing.duration[1]).ms
        write == pricing.model = "time" /\ payer # None
    IN  /\ gw[c].pc = "settling"
        /\ gw' = [gw EXCEPT ![c].pc = "proxying", ![c].settle = answer,
                            ![c].via = "payment",
                            ![c].paymentResponse = TRUE]
        /\ sessions' =
             IF write
             THEN MemoryTimeSessionStore_set(
                      sessions, buildSessionKey(req.route, payer[1]), expiry)
             ELSE sessions
        /\ paid' = [paid EXCEPT
                      !.by = @ \cup {<<c, req.route>>},
                      !.until = IF write
                                THEN [@ EXCEPT ![<<req.route,
                                         toLowerCase(payer[1])>>] =
                                            Some(expiry)]
                                ELSE @]
        /\ UNCHANGED <<now, windows, rl, hist, st, lastSet, lastOp,
                       verifyCalls, settleCalls, input, output, unswept>>

\* the facilitator's answer to /settle: "success" is success = true,
\* "failure" every other outcome; on success the session is written
\* (time model) under the payer the facilitator settled for, who is the
\* payer of the verified payload
GwSettleReturn(c, answer) ==
    LET req == gw[c].req
        pricing == getEffectiveRoutePricing(Config.routes[req.route])
        payer == PayerOfPayload(
                    decodePaymentSignature(req.paymentSignature[1]).payload)
        expiry == now + parseDuration(pricing.duration[1]).ms
        write == pricing.model = "time" /\ payer # None
    IN  /\ gw[c].pc = "settling"
        /\ IF answer = "success"
           THEN /\ gw' = [gw EXCEPT ![c].pc = "proxying",
                                    ![c].settle = answer,
                                    ![c].via = "payment",
                                    ![c].paymentResponse = TRUE]
                /\ sessions' =
                     IF write
                     THEN MemoryTimeSessionStore_set(
                              sessions, buildSessionKey(req.route, payer[1]),
                              expiry)
                     ELSE sessions
                /\ paid' = [paid EXCEPT
                              !.by = @ \cup {<<c, req.route>>},
                              !.until = IF write
                                        THEN [@ EXCEPT ![<<req.route,
                                                 toLowerCase(payer[1])>>] =
                                                    Some(expiry)]
                                        ELSE @]
           ELSE /\ gw' = [gw EXCEPT ![c].pc = "done", ![c].settle = answer,
                                    ![c].status = 402]
                /\ UNCHANGED <<sessions, paid>>
        /\ UNCHANGED <<now, windows, rl, hist, st, lastSet, lastOp,
                       verifyCalls, settleCalls, input, output, unswept>>

\* A relay that attaches the payment-response header to every response.
GwUpstreamReturn_alwaysheader(c, answer) ==
    /\ gw[c].pc = "proxying"
    /\ gw' = [gw EXCEPT ![c].pc = "done",
                        ![c].status = IF answer = "ok" THEN 200 ELSE 502,
                        ![c].paymentResponse = TRUE]
    /\ UNCHANGED <<now, windows, rl, hist, sessions, st, lastSet, lastOp,
                   verifyCalls, settleCalls, paid, input, output, unswept>>

\* the upstream's answer, relayed with the payment-response header if this
\* request paid
GwUpstreamReturn(c, answer) ==
    /\ gw[c].pc = "proxying"
    /\ gw' = [gw EXCEPT ![c].pc = "done",
                        ![c].status = IF answer = "ok" THEN 200 ELSE 502]
    /\ UNCHANGED <<now, windows, rl, hist, sessions, st, lastSet, lastOp,
                   verifyCalls, settleCalls, paid, input, output, unswept>>

(***************************************************************************)
(* Initial state: both stores freshly constructed, nothing in flight.      *)
(***************************************************************************)

InitStores ==
    /\ now = 0
    /\ windows = EmptyMap
    /\ rl = [p \in Procs |-> RlIdle]
    /\ hist = [k \in RLKeys |-> <<>>]
    /\ sessions = EmptyMap
    /\ st = NoGet
    /\ lastSet = [k \in SessionKeys |-> None]
    /\ lastOp = NoOp
    /\ gw = [c \in Callers |-> GwIdle]
    /\ verifyCalls = 0
    /\ settleCalls = 0
    /\ paid = [requests |-> 0, by |-> {},
               until |-> [k \in Routes \X LowerPayers |-> None]]
    /\ unswept = [sessions |-> EmptyMap, result |-> None]

Init ==
    /\ InitStores
    /\ input = None
    /\ output = None

NextRL ==
    \/ \E p \in Procs, r \in LimitedRoutes : RLCall(p, r)
    \/ \E p \in Procs : RLReturn(p)
    \/ RLSweep
    \/ Tick

SpecRL == Init /\ [][NextRL]_vars

NextStore ==
    \/ \E k \in StoreKeys : StGet(k)
    \/ \E k \in StoreKeys, e \in Expiries(now) : StSet(k, e)
    \/ StSweep
    \/ Tick

SpecStore == Init /\ [][NextStore]_vars

(***************************************************************************)
(* extractIdentity on its own: applied to one request, drawn from the      *)
(* headers below.                                                          *)
(***************************************************************************)
MaxFwdLen == 3      \* length of the x-forwarded-for header

\* the strings over alphabet of length at most n
StringsUpTo(alphabet, n) == UNION {[1..k -> alphabet] : k \in 0..n}

JNull == <<"null", <<>>, EmptyMap>>

\* an object with the field name added when a value is given for it
WithField(fields, name, opt) ==
    IF opt = None THEN fields ELSE MapSet(fields, name, opt[1])

\* the header whose JSON holds af at payload.authorization.from, f at from
\* and p at payer, each when given
HeaderOf(af, f, p) ==
    LET payload == IF af = None THEN None
                   ELSE Some(JObj([authorization |->
                                JObj(WithField(EmptyMap, "from", af))]))
    IN  Header(TRUE,
               JObj(WithField(WithField(WithField(EmptyMap,
                            "payload", payload), "from", f), "payer", p)))

PayerC == <<"0", "x", "C">>

IdentityHeaders ==
    {None, Some(Garbage),
     Some(Header(TRUE, JStr(PayerA))),
     Some(Header(TRUE, JNull)),
     Some(Header(TRUE, JObj([payload |-> JStr(PayerA)])))}
    \cup {Some(HeaderOf(af, f, p)) :
            af \in {None, Some(JStr(<<>>)), Some(JStr(PayerA)),
                    Some(JObj(EmptyMap))},
            f \in {None, Some(JStr(<<>>)), Some(JStr(PayerB))},
            p \in {None, Some(JStr(PayerC)), Some(JNull)}}

IdentityForwarded ==
    {None} \cup {Some(s) : s \in StringsUpTo({"9", " ", ","}, MaxFwdLen)}

IdentityRequests ==
    {Request(RouteT, h, f) : h \in IdentityHeaders, f \in IdentityForwarded}

InitIdentity ==
    /\ InitStores
    /\ input \in IdentityRequests
    /\ output = None

ExtractIdentityCall ==
    /\ output = None
    /\ output' = Some(extractIdentity(input))
    /\ UNCHANGED <<now, windows, rl, hist, sessions, st, lastSet, lastOp, gw,
                   verifyCalls, settleCalls, paid, input, unswept>>

NextIdentity == ExtractIdentityCall

SpecIdentity == InitIdentity /\ [][NextIdentity]_vars

(***************************************************************************)
(* The two duration parsers on their own: both applied to one string.      *)
(***************************************************************************)
MaxLen == 3         \* length of the string parsed

MaxMagnitude == 20  \* largest magnitude parsed: results stay within 32 bits

DurationStrings ==
    {s \in StringsUpTo({"0", "2", "9", "s", "m", "h", "d", "x"}, MaxLen) :
        MatchesDuration(s)
        => parseInt(SubSeq(s, 1, Len(s) - 1)) <= MaxMagnitude}

InitDuration ==
    /\ InitStores
    /\ input \in DurationStrings
    /\ output = None

\* the outcome of each parser: the value returned or the Error thrown
ParseBoth ==
    /\ output = None
    /\ output' = Some([window |-> parseWindow(input),
                       duration |-> parseDuration(input)])
    /\ UNCHANGED <<now, windows, rl, hist, sessions, st, lastSet, lastOp, gw,
                   verifyCalls, settleCalls, paid, input, unswept>>

NextDuration == ParseBoth

SpecDuration == InitDuration /\ [][NextDuration]_vars

\* the gateway: requests, both sweep timers, the clock
Next ==
    \/ \E c \in Callers : \E req \in RequestsOf(c) : GwArrive(c, req)
    \/ \E c \in Callers, a \in {"valid", "invalid"} :
            GwVerifyReturn(c, a)
    \/ \E c \in Callers, a \in {"success", "failure"} :
            GwSettleReturn(c, a)
    \/ \E c \in Callers, a \in {"ok", "down"} : GwUpstreamReturn(c, a)
    \/ RLSweep
    \/ StSweep
    \/ Tick

Spec == Init /\ [][Next]_vars

(***************************************************************************)
(* Rate limiter: properties.                                               *)
(***************************************************************************)

\* C3: two checks of one key in flight together, made at the same instant,
\* of which the earlier took the key's single remaining slot (allowed with
\* remaining = 0), are never both answered allowed.
C3_NoDoubleAdmit ==
    \A p \in Procs, q \in Procs :
        ( /\ p # q
          /\ rl[p].pc = "awaiting" /\ rl[q].pc = "awaiting"
          /\ rl[p].key = rl[q].key /\ rl[p].at = rl[q].at
          /\ rl[p].seq < rl[q].seq
          /\ rl[p].result.allowed /\ rl[p].result.remaining = 0 )
        => ~rl[q].result.allowed

\* two checks in flight at one instant: the first took the last slot, the
\* second was denied
C3_Witness ==
    \E p \in Procs, q \in Procs :
        /\ p # q
        /\ rl[p].pc = "awaiting" /\ rl[q].pc = "awaiting"
        /\ rl[p].key = rl[q].key /\ rl[p].at = rl[q].at
        /\ rl[p].seq < rl[q].seq
        /\ rl[p].result.allowed /\ rl[p].result.remaining = 0
        /\ ~rl[q].result.allowed

\* C4: from a key with no history, the k-th check (k = 1..limit) made within
\* windowMs of the first is allowed and reports remaining = limit - k.
C4_FirstLimitAllowed ==
    \A k \in RLKeys :
        \A i \in 1..Len(hist[k]) :
            (i <= LimitOf(k) /\ hist[k][i].at - hist[k][1].at <= WindowMsOf(k))
            => /\ hist[k][i].result.allowed
               /\ hist[k][i].result.remaining = LimitOf(k) - i

\* C5: a check made while `limit` allowed checks of its key are all inside
\* the window (now - oldest <= windowMs) is denied with remaining = 0 and
\* resetMs > 0.
C5_DeniedInsideWindow ==
    \A k \in RLKeys :
        \A j \in 1..Len(hist[k]) :
            LET h == hist[k]
                inside == {i \in 1..(j - 1) :
                             /\ h[i].result.allowed
                             /\ h[j].at - h[i].at <= WindowMsOf(k)}
            IN  Cardinality(inside) >= LimitOf(k)
                => /\ ~h[j].result.allowed
                   /\ h[j].result.remaining = 0
                   /\ h[j].result.resetMs > 0

\* C6: a check denied at t with resetMs = r, with no check of the key allowed
\* in between, is followed by an allowed check at t + r.
C6_AllowedAfterReset ==
    \A k \in RLKeys :
        \A i \in 1..Len(hist[k]), j \in 1..Len(hist[k]) :
            LET h == hist[k]
            IN  ( /\ i < j
                  /\ ~h[i].result.allowed
                  /\ h[j].at = h[i].at + h[i].result.resetMs
                  /\ \A m \in (i + 1)..(j - 1) : ~h[m].result.allowed )
                => h[j].result.allowed

\* C7: no step deletes a rate-limit key that holds a timestamp not older
\* than the key's window (timestamp >= now - windowMs).
C7_SweepKeepsLive ==
    [][\A k \in DOMAIN windows :
          k \notin DOMAIN windows'
          => \A i \in 1..Len(windows[k]) :
                windows[k][i] < now - WindowMsOf(k)]_vars

(***************************************************************************)
(* Session store: properties.                                              *)
(***************************************************************************)

\* C8: a get returns t exactly when t is the last value set for the key and
\* t > now; otherwise it returns absent and the key is not in the map after
\* it.  No get has returned an expiry that was not in the future when read.
C8_LazyExpiry ==
    /\ [](st.res # None => st.res[1] > st.at)
    /\ [][st'.n # st.n
          => LET k == st'.key
             IN  IF lastSet[k] # None /\ lastSet[k][1] > now
                 THEN st'.res = lastSet[k]
                 ELSE st'.res = None /\ k \notin DOMAIN sessions']_vars

\* a get made at the very expiry of the key's session, with no sweep since
\* the set: it returned absent and the entry is gone
C8_Witness ==
    /\ st.n # NoGet.n
    /\ st.res = None
    /\ lastSet[st.key] = Some(st.at)
    /\ lastOp.key = st.key /\ lastOp.arg = st.at /\ lastOp.prev = None
    /\ st.key \notin DOMAIN sessions

\* C9: set(key, expiresAt) leaves exactly expiresAt under key and every
\* other entry as it was.
C9_SetOverwrites ==
    [][lastOp'.n # lastOp.n
       => LET k == lastOp'.key
          IN  /\ DOMAIN sessions' = DOMAIN sessions \cup {k}
              /\ sessions'[k] = lastOp'.arg
              /\ \A j \in DOMAIN sessions \ {k} :
                    sessions'[j] = sessions[j]]_vars

\* a set has replaced a later expiry by an earlier one, another key present
C9_Witness ==
    /\ lastOp.prev # None /\ lastOp.prev[1] > lastOp.arg
    /\ lastOp.key \in DOMAIN sessions
    /\ sessions[lastOp.key] = lastOp.arg
    /\ DOMAIN sessions # {lastOp.key}

(***************************************************************************)
(* Admission pipeline: properties.                                         *)
(***************************************************************************)
Forwarded(c) == gw[c].via # "none"

\* C1: a request is forwarded to the upstream only if the session store held
\* an entry with expiry > now under the key of its route and header payer
\* when it arrived, or the facilitator answered this request's verify with
\* isValid = true and its settle with success = true.
C1_AdmissionSafety ==
    \A c \in Callers :
        /\ Forwarded(c)
           => \/ gw[c].snap # None /\ gw[c].snap[1] > gw[c].at
              \/ gw[c].verify = "valid" /\ gw[c].settle = "success"
        /\ gw[c].pc = "proxying" \/ gw[c].status = 200 => Forwarded(c)

\* one request proxied on an active session while another, which paid, is
\* proxied too; neither was rejected
C1_Witness ==
    \E c \in Callers, d \in Callers :
        /\ gw[c].via = "session" /\ gw[c].status = 200
        /\ gw[c].verify = "none"
        /\ gw[d].via = "payment" /\ gw[d].status = 200

\* C2: a caller none of whose own requests has passed verify and settle on a
\* time-priced route is never forwarded to the upstream on that route.
C2_ForgedPayerNotAdmitted ==
    \A c \in Callers :
        (Forwarded(c) /\ gw[c].req.route \in TimeRoutes)
        => <<c, gw[c].req.route>> \in paid.by

\* the request arrived while a session paid for its route and payer was
\* running
ArrivedInSession(c) ==
    /\ gw[c].pc # "idle"
    /\ gw[c].req.route \in TimeRoutes
    /\ gw[c].due # None /\ gw[c].due[1] > gw[c].at

\* forwarded on the session, no facilitator call made for it, and answered
\* with the upstream's answer
ReusedSession(c) ==
    /\ gw[c].via = "session"
    /\ gw[c].calls = 0 /\ gw[c].verify = "none" /\ gw[c].settle = "none"
    /\ ~gw[c].paymentResponse
    /\ gw[c].pc \in {"proxying", "done"}
    /\ gw[c].pc = "done" => gw[c].status \in {200, 502}

\* C10 as stated: every request arriving on a time route before the expiry
\* of a session paid for its payer is proxied with no verify or settle call.
C10_SessionReuseAlways ==
    \A c \in Callers : ArrivedInSession(c) => ReusedSession(c)

\* C10, amended: ... unless the rate limiter denied the request (429).
C10_SessionReuse ==
    \A c \in Callers :
        (ArrivedInSession(c) /\ gw[c].status # 429) => ReusedSession(c)

\* after one paid request, a second one with the same payer was answered 200
\* on the session: verify and settle were each called once in all
C10_Witness ==
    \E c \in Callers :
        /\ ArrivedInSession(c) /\ ReusedSession(c)
        /\ gw[c].status = 200
        /\ verifyCalls = 1 /\ settleCalls = 1

\* the request arrived on a time route at or after the expiry of the last
\* session paid for its route and payer
ArrivedAfterExpiry(c) ==
    /\ gw[c].pc # "idle"
    /\ gw[c].req.route \in TimeRoutes
    /\ gw[c].due # None /\ gw[c].due[1] <= gw[c].at

\* not admitted on a session: verify was called for it; settle too once
\* verify answered valid; once settle answered success it is forwarded with
\* a payment-response header
Repaid(c) ==
    /\ gw[c].via # "session"
    /\ gw[c].calls >= 1
    /\ gw[c].pc = "verifying" \/ gw[c].verify # "none"
    /\ gw[c].verify = "valid" => gw[c].calls = 2
    /\ gw[c].settle = "success"
       => /\ gw[c].via = "payment" /\ gw[c].paymentResponse
          /\ gw[c].pc \in {"proxying", "done"}
          /\ gw[c].pc = "done" => gw[c].status \in {200, 502}

\* a successful settle on a time route (duration "1h") leaves a session
\* expiring one hour from now under the key of the route and the payer
SettleWritesSession ==
    \A c \in Callers :
        ( /\ gw[c].pc = "settling" /\ gw'[c].settle = "success"
          /\ gw[c].req.route \in TimeRoutes )
        => LET key == gw[c].req.route \o Colon
                        \o extractPayerFromPaymentHeader(gw[c].req)[1]
           IN  /\ key \in DOMAIN sessions'
               /\ sessions'[key] = now + HourMs

\* C11 as stated: every request arriving on a time route at or after the
\* expiry of its payer's session goes through verify and settle again,
\* writes a new session and is proxied with a payment-response header.
C11_RepaymentAlways ==
    /\ [](\A c \in Callers : ArrivedAfterExpiry(c) => Repaid(c))
    /\ [][SettleWritesSession]_vars

\* C11, amended: ... unless the rate limiter denied the request (429).
C11_Repayment ==
    /\ [](\A c \in Callers :
            (ArrivedAfterExpiry(c) /\ gw[c].status # 429) => Repaid(c))
    /\ [][SettleWritesSession]_vars

\* a payer whose session had run out paid again: verify and settle were
\* each called a second time, a new session is running, the answer is 200
\* with a payment-response header
C11_Witness ==
    \E c \in Callers :
        LET key == gw[c].req.route \o Colon
                     \o extractPayerFromPaymentHeader(gw[c].req)[1]
        IN  /\ ArrivedAfterExpiry(c) /\ Repaid(c)
            /\ gw[c].status = 200 /\ gw[c].paymentResponse
            /\ verifyCalls = 2 /\ settleCalls = 2
            /\ key \in DOMAIN sessions
            /\ sessions[key] > gw[c].due[1]

\* C12: settle is called for a request only in the step in which verify
\* answered isValid = true for it; a request whose verify answered invalid
\* ends with 402 and no settle call.
C12_VerifyBeforeSettle ==
    /\ [](\A c \in Callers :
            /\ (gw[c].pc = "settling" \/ gw[c].settle # "none"
                    \/ gw[c].calls = 2)
               => gw[c].verify = "valid"
            /\ gw[c].verify = "invalid"
               => /\ gw[c].pc = "done" /\ gw[c].status = 402
                  /\ gw[c].settle = "none" /\ gw[c].calls = 1)
    /\ [][settleCalls' # settleCalls
          => /\ settleCalls' = settleCalls + 1
             /\ \E c \in Callers :
                    /\ gw[c].pc = "verifying" /\ gw'[c].verify = "valid"
                    /\ gw'[c].pc = "settling"]_vars

\* one request was refused by verify and answered 402 with no settle call,
\* another was verified and then settled
C12_Witness ==
    \E c \in Callers, d \in Callers :
        /\ gw[c].verify = "invalid" /\ gw[c].status = 402
        /\ gw[c].settle = "none"
        /\ gw[d].verify = "valid" /\ gw[d].settle # "none"
        /\ verifyCalls = 2 /\ settleCalls = 1

\* C13: a request whose verify answered valid and whose settle failed ends
\* with an error status, is not forwarded to the upstream and carries no
\* payment-response header.
C13_SettlementFailureSurfaced ==
    \A c \in Callers :
        gw[c].settle = "failure"
        => /\ gw[c].verify = "valid"
           /\ gw[c].pc = "done"
           /\ gw[c].status >= 400
           /\ ~Forwarded(c)
           /\ ~gw[c].paymentResponse

\* a request was verified, its settlement failed, and it was answered 402
C13_Witness ==
    \E c \in Callers :
        /\ gw[c].verify = "valid" /\ gw[c].settle = "failure"
        /\ gw[c].pc = "done" /\ gw[c].status = 402
        /\ verifyCalls >= 1 /\ settleCalls >= 1

\* the step is the arrival of a request of c
Arrives(c) ==
    /\ paid'.requests # paid.requests
    /\ gw'[c].pc # "idle" /\ gw'[c].at = now
    /\ \A d \in Callers \ {c} : gw'[d] = gw[d]

\* the arrival of a request on a rate-limited route consults the limiter
\* under <routeKey>:<identity>, the identity being in the IP namespace when
\* the header does not decode; a denial changes nothing else
LimiterConsultedFirst(c) ==
    LET req == gw'[c].req
        rateLimit == Config.routes[req.route].rateLimit
        identity == extractIdentity(req)
        key == req.route \o Colon \o identity
    IN  rateLimit # None
        => /\ key \in DOMAIN windows'
           /\ \A k \in DOMAIN windows : k # key => /\ k \in DOMAIN windows'
                                                   /\ windows'[k] = windows[k]
           /\ req.paymentSignature = Some(Garbage)
              => SubSeq(identity, 1, Len(IpPrefix)) = IpPrefix
           /\ IF gw'[c].limited
              THEN /\ Len(windows'[key]) >= rateLimit[1].requests
                   /\ gw'[c].status = 429 /\ gw'[c].pc = "done"
                   /\ sessions' = sessions
                   /\ verifyCalls' = verifyCalls
                   /\ settleCalls' = settleCalls
              ELSE /\ windows'[key][Len(windows'[key])] = now
                   /\ gw'[c].status # 429

\* C14: on a rate-limited route the limiter is consulted under
\* <routeKey>:<identity> on arrival, also for an undecodable header; a
\* denied request ends with 429 and causes no verify call, no settle call,
\* no session lookup or write and no upstream call.
C14_RateLimitFirst ==
    /\ [](\A c \in Callers :
            /\ gw[c].limited
               => /\ gw[c].pc = "done" /\ gw[c].status = 429
                  /\ gw[c].calls = 0
                  /\ gw[c].verify = "none" /\ gw[c].settle = "none"
                  /\ ~Forwarded(c) /\ ~gw[c].paymentResponse
            /\ gw[c].status = 429 => gw[c].limited)
    /\ [][paid'.requests # paid.requests
          => \E c \in Callers : Arrives(c) /\ LimiterConsultedFirst(c)]_vars

\* a request with an undecodable header was denied by the limiter, counted
\* under its IP: 429, and the facilitator was never called
C14_Witness ==
    \E c \in Callers :
        /\ gw[c].limited /\ gw[c].status = 429
        /\ gw[c].req.paymentSignature = Some(Garbage)
        /\ RateLimitKey(gw[c].req.route, extractIdentity(gw[c].req))
                \in DOMAIN windows
        /\ verifyCalls = 0 /\ settleCalls = 0

\* C15: a response carries the payment-response header exactly when the
\* request itself was verified and settled with success; a request admitted
\* on a session and a rejected request (402, 429) carry none.
C15_PaymentResponseIffFresh ==
    \A c \in Callers :
        /\ gw[c].paymentResponse
           <=> (gw[c].verify = "valid" /\ gw[c].settle = "success")
        /\ gw[c].via = "session" => ~gw[c].paymentResponse
        /\ gw[c].status \in {402, 429} => ~gw[c].paymentResponse
        /\ gw[c].paymentResponse => gw[c].calls = 2

\* two responses relayed from the upstream: one to a request that paid, with
\* the header; one to a request admitted on the session, without it
C15_Witness ==
    \E c \in Callers, d \in Callers :
        /\ gw[c].pc = "done" /\ gw[c].status = 200
        /\ gw[c].via = "payment" /\ gw[c].paymentResponse
        /\ gw[d].pc = "done" /\ gw[d].status = 200
        /\ gw[d].via = "session" /\ ~gw[d].paymentResponse

\* the step is the successful settle of c's request on a time route: it
\* sets the entry <routeKey>:<lowercased payer> to now + duration ("1h") and
\* leaves every other entry as it was
SettleWrite(c) ==
    LET key == gw[c].req.route \o Colon
                 \o extractPayerFromPaymentHeader(gw[c].req)[1]
    IN  /\ gw[c].pc = "settling" /\ gw'[c].settle = "success"
        /\ getEffectiveRoutePricing(Config.routes[gw[c].req.route]).model
                = "time"
        /\ DOMAIN sessions' = DOMAIN sessions \cup {key}
        /\ sessions'[key] = now + HourMs
        /\ \A k \in DOMAIN sessions \ {key} : sessions'[k] = sessions[k]

\* the step is the arrival of c's request on a time route, not denied by
\* the limiter, whose lookup found its payer's entry expired and deleted it
LookupDeletesExpired(c) ==
    LET req == gw'[c].req
        key == req.route \o Colon \o extractPayerFromPaymentHeader(req)[1]
    IN  /\ Arrives(c) /\ ~gw'[c].limited
        /\ req.route \in TimeRoutes
        /\ extractPayerFromPaymentHeader(req) # None
        /\ key \in DOMAIN sessions /\ sessions[key] <= now
        /\ DOMAIN sessions' = DOMAIN sessions \ {key}
        /\ \A k \in DOMAIN sessions' : sessions'[k] = sessions[k]

\* C16 as stated: a step of the pipeline changes the session map only when
\* it is the successful settle of a request on a time route, which writes
\* now + duration under <routeKey>:<lowercased payer>; every other step of
\* a request leaves every session entry unchanged.
C16_OnlySettleWrites ==
    [][(gw' # gw /\ sessions' # sessions)
       => \E c \in Callers : SettleWrite(c)]_vars

\* C16, amended: ... except that the lookup of an arriving request deletes
\* its payer's entry when that entry has expired.
C16_OnlySettleWritesOrExpires ==
    [][(gw' # gw /\ sessions' # sessions)
       => \E c \in Callers : SettleWrite(c) \/ LookupDeletesExpired(c)]_vars

\* a request naming payer 0xA paid on a time route and its session is held
\* under the lower-cased key, the only entry, while another request was
\* rejected with 402
C16_Witness ==
    \E c \in Callers, d \in Callers :
        /\ gw[c].via = "payment" /\ gw[c].req.route \in TimeRoutes
        /\ gw[c].req.paymentSignature = Some(Signed(PayerA))
        /\ DOMAIN sessions = {gw[c].req.route \o Colon \o PayerALower}
        /\ gw[d].status = 402

(***************************************************************************)
(* Identity extraction and duration parsing: properties.                   *)
(***************************************************************************)
HasPrefix(s, p) == Len(s) >= Len(p) /\ SubSeq(s, 1, Len(p)) = p

\* C17: extractIdentity returns payer:<lowercased address> for the first
\* non-empty string found at payload.authorization.from, from, payer of a
\* header that decodes; otherwise ip:<first token of x-forwarded-for,
\* trimmed> when that is non-empty; otherwise ip:unknown.  The result is
\* never empty, and a payer identity is never in the ip: namespace nor an
\* IP identity in the payer: namespace.
C17_ExtractIdentity ==
    output # None
    => LET id == output[1]
           h == input.paymentSignature
           decoded == h # None /\ Decodes(h[1])
           at(path) == IF decoded THEN getNestedString(JsonOf(h[1]), path)
                       ELSE None
           a == at(<<"payload", "authorization", "from">>)
           b == at(<<"from">>)
           c == at(<<"payer">>)
           payer == IF a # None THEN a ELSE IF b # None THEN b ELSE c
           token == IF input.forwardedFor = None THEN <<>>
                    ELSE Trim(FirstToken(input.forwardedFor[1]))
       IN  /\ id # <<>>
           /\ IF payer # None
              THEN /\ id = PayerPrefix \o toLowerCase(payer[1])
                   /\ ~HasPrefix(id, IpPrefix)
              ELSE /\ id = IF token # <<>> THEN IpPrefix \o token
                           ELSE IpUnknown
                   /\ ~HasPrefix(id, PayerPrefix)

\* a header holding an empty string at payload.authorization.from, a payer
\* at from and another at payer: the identity is the one at from, lower-cased
C17_Witness ==
    /\ output = Some(PayerPrefix \o toLowerCase(PayerB))
    /\ input.paymentSignature =
            Some(HeaderOf(Some(JStr(<<>>)), Some(JStr(PayerB)),
                          Some(JStr(PayerC))))
    /\ input.forwardedFor = Some(<<" ", "9", ",">>)

\* digits followed by one unit letter
IsDuration(s) ==
    /\ Len(s) >= 2
    /\ \A i \in 1..(Len(s) - 1) : s[i] \in Digits
    /\ s[Len(s)] \in {"s", "m", "h", "d"}

\* C18: on every string parseWindow and parseDuration agree: on digits n
\* followed by a unit both return n times the unit's milliseconds; on every
\* other string both throw the same error, which names the string.
C18_ParsersAgree ==
    output # None
    => LET w == output[1].window
           d == output[1].duration
           n == parseInt(SubSeq(input, 1, Len(input) - 1))
       IN  IF IsDuration(input)
           THEN /\ w.ok /\ d.ok
                /\ w.ms = n * UnitMs(input[Len(input)])
                /\ d.ms = w.ms
           ELSE /\ ~w.ok /\ ~d.ok
                /\ w.error = d.error
                /\ w.error[1][2] = input

(***************************************************************************)
(* Rate limiter: the window as a whole.                                    *)
(***************************************************************************)
Sorted(seq) == \A i \in 1..Len(seq), j \in 1..Len(seq) :
                    i <= j => seq[i] <= seq[j]

\* the checks of k answered allowed at a time in [t, t + W]
AllowedIn(k, t) ==
    {j \in 1..Len(hist[k]) :
        /\ hist[k][j].result.allowed
        /\ hist[k][j].at >= t /\ hist[k][j].at <= t + WindowMsOf(k)}

\* C19: the stored sequence of a key is sorted oldest-first and holds at
\* most L entries, and no closed interval of length W holds more than L
\* checks answered allowed.
C19_SlidingWindow ==
    \A k \in RLKeys :
        /\ k \in DOMAIN windows
           => Sorted(windows[k]) /\ Len(windows[k]) <= LimitOf(k)
        /\ \A i \in 1..Len(hist[k]) :
              Cardinality(AllowedIn(k, hist[k][i].at)) <= LimitOf(k)

\* the step is a check of key k that was denied
DeniedCheck(k) ==
    /\ Len(hist'[k]) = Len(hist[k]) + 1
    /\ ~hist'[k][Len(hist'[k])].result.allowed

\* C20: a denied check appends nothing: it leaves of its key's sequence the
\* timestamps not older than the cutoff, in order, and leaves every other
\* key as it was; so the moment a denial announces (now + resetMs) is the
\* same for every denial that follows it with no allowed check in between.
C20_DeniedRecordsNothing ==
    /\ [][\A k \in RLKeys :
            DeniedCheck(k)
            => LET Live(t) == t >= now - WindowMsOf(k)
               IN  /\ k \in DOMAIN windows /\ k \in DOMAIN windows'
                   /\ windows'[k] = SelectSeq(windows[k], Live)
                   /\ DOMAIN windows' = DOMAIN windows
                   /\ \A o \in DOMAIN windows \ {k} :
                        windows'[o] = windows[o]]_vars
    /\ [](\A k \in RLKeys :
            \A i \in 1..Len(hist[k]), j \in 1..Len(hist[k]) :
                ( /\ i < j
                  /\ \A m \in i..j : ~hist[k][m].result.allowed )
                => hist[k][j].at + hist[k][j].result.resetMs
                     = hist[k][i].at + hist[k][i].result.resetMs)

\* two checks of a key denied one after the other at different instants:
\* the key still holds only the timestamp of the allowed check before them
C20_Witness ==
    \E k \in RLKeys :
        /\ Len(hist[k]) = 3
        /\ hist[k][1].result.allowed
        /\ ~hist[k][2].result.allowed /\ ~hist[k][3].result.allowed
        /\ hist[k][2].at < hist[k][3].at
        /\ k \in DOMAIN windows /\ windows[k] = <<hist[k][1].at>>

(***************************************************************************)
(* Session store: the sweep against a store that is never swept.           *)
(***************************************************************************)
\* the entries of s that have not expired
ActiveEntries(s) == MapKeep(s, {k \in DOMAIN s : s[k] > now})

\* the step is a sweep that deleted something
SweepStep ==
    /\ sessions' # sessions
    /\ st'.n = st.n /\ lastOp'.n = lastOp.n

\* C21: the sweep deletes exactly the entries with expiry <= now, and every
\* get returns what it returns from a store given the same get and set calls
\* at the same times and never swept; the two stores hold the same active
\* entries.
C21_SweepUnobservable ==
    /\ [](/\ st.res = unswept.result
          /\ ActiveEntries(sessions) = ActiveEntries(unswept.sessions))
    /\ [][SweepStep => sessions' = ActiveEntries(sessions)]_vars

\* a sweep has deleted an expired entry that the unswept store still holds,
\* and a get made since returned the same active expiry from both
C21_Witness ==
    /\ DOMAIN sessions # DOMAIN unswept.sessions
    /\ st.n # NoGet.n
    /\ st.res # None /\ st.res = unswept.result
    /\ st.res[1] > now
    /\ \E k \in DOMAIN unswept.sessions :
            k \notin DOMAIN sessions /\ unswept.sessions[k] < st.at

====
